---------------------------- MODULE Spec2Model ----------------------------
(***************************************************************************)
(* Sleep record store and analytics of the sleepi backend                  *)
(* (src/server/main.py): log_sleep (upsert by date into the per-user CSV   *)
(* file), get_sleep_for_user (load), and the analysis phase of             *)
(* generate_schedule (week-over-week comparison and composite score).      *)
(*                                                                         *)
(* Modelling conventions                                                   *)
(*  - A night string is [date, sfx, wf]: date stands for its first 10     *)
(*    characters (a day number when they are a well-formed YYYY-MM-DD,     *)
(*    wf = TRUE), sfx says whether characters follow them (a time of day,  *)
(*    "T23:30").  str[:10] drops the suffix;                               *)
(*    pd.to_datetime(format='%Y-%m-%d', errors='coerce') gives NaT for a   *)
(*    string with a suffix or a malformed date.                            *)
(*  - Hour fields are floats in the code and exact rationals here; the     *)
(*    stored values are counted in half hours.                             *)
(*  - A CSV file is [exists, hdr, rows]: a zero-byte file has hdr = FALSE. *)
(*    DataFrame.to_csv opens the path with mode 'w' (the file is truncated *)
(*    at once) and its buffered text reaches the file when the handle is   *)
(*    flushed.  Rows are treated as lines of equal byte length.            *)
(*  - FastAPI runs the "def" endpoints in a thread pool: the steps of two  *)
(*    requests interleave at the file operations.                          *)
(***************************************************************************)
EXTENDS Integers, Sequences, FiniteSets, TLC

VARIABLES file, thr, cmp, sc, started

vars == <<file, thr, cmp, sc, started>>

(***************************************************************************)
(* Bounds of the model.                                                    *)
(***************************************************************************)
MaxNight == 3
MaxRows == 3
MaxDay == 12
MaxCmpRows == 3
MaxHalfHours == 48
MaxConcNight == 2
MaxConcRequests == 4

MaxStoredRows == 2

MaxStoredRequests == 2

MaxLoadRows == 3

(***************************************************************************)
(* Exact rational arithmetic standing for the floats of the code.          *)
(* A rational is [n, d] with d > 0 in lowest terms; d = 0 is the outcome   *)
(* of a division by zero and is absorbing.                                 *)
(***************************************************************************)
Abs(x) == IF x < 0 THEN -x ELSE x

RECURSIVE GCD(_, _)
GCD(a, b) == IF b = 0 THEN a ELSE GCD(b, a % b)

NaR == [n |-> 1, d |-> 0]

Rat(n, d) ==
    IF d = 0 THEN NaR
    ELSE LET g == GCD(Abs(n), Abs(d))
             s == IF d < 0 THEN -1 ELSE 1
         IN  [n |-> s * (n \div g), d |-> s * (d \div g)]

Num(k) == [n |-> k, d |-> 1]

IsNum(a) == a.d > 0

RAdd(a, b) ==
    IF a.d = 0 \/ b.d = 0 THEN NaR ELSE Rat(a.n * b.d + b.n * a.d, a.d * b.d)

RSub(a, b) ==
    IF a.d = 0 \/ b.d = 0 THEN NaR ELSE Rat(a.n * b.d - b.n * a.d, a.d * b.d)

RMul(a, b) ==
    IF a.d = 0 \/ b.d = 0 THEN NaR
    ELSE LET x == Rat(a.n, b.d)
             y == Rat(b.n, a.d)
         IN  Rat(x.n * y.n, x.d * y.d)

RDiv(a, b) ==
    IF a.d = 0 \/ b.d = 0 \/ b.n = 0 THEN NaR
    ELSE RMul(a, Rat(b.d, b.n))

RLt(a, b) == a.d > 0 /\ b.d > 0 /\ a.n * b.d < b.n * a.d

RLe(a, b) == a.d > 0 /\ b.d > 0 /\ a.n * b.d <= b.n * a.d

RMax(a, b) == IF RLt(a, b) THEN b ELSE a

RMin(a, b) == IF RLt(b, a) THEN b ELSE a

\* A stored hour count of h half hours, as the float the code reads.
Hours(h) == Rat(h, 2)

(***************************************************************************)
(* generate_schedule: efficiency and the composite score.                  *)
(***************************************************************************)
\* Mutant: the division is not guarded by in_bed > 0.
EfficiencyUnguarded(sleep, in_bed) == RMul(RDiv(sleep, in_bed), Num(100))

Efficiency(sleep, in_bed) ==
    IF RLt(Num(0), in_bed) THEN RMul(RDiv(sleep, in_bed), Num(100)) ELSE Num(0)

\* Mutant: the oversleep penalty is not floored at 0.
duration_score_unfloored(sleep_hours) ==
    IF RLe(Rat(15, 2), sleep_hours) /\ RLe(sleep_hours, Rat(17, 2))
    THEN Num(60)
    ELSE IF RLt(sleep_hours, Rat(15, 2))
         THEN RMul(RDiv(sleep_hours, Rat(15, 2)), Num(60))
         ELSE RSub(Num(60),
                   RMul(RDiv(RSub(sleep_hours, Rat(17, 2)), Rat(5, 2)), Num(20)))

duration_score(sleep_hours) ==
    IF RLe(Rat(15, 2), sleep_hours) /\ RLe(sleep_hours, Rat(17, 2))
    THEN Num(60)
    ELSE IF RLt(sleep_hours, Rat(15, 2))
         THEN RMax(Num(0), RMul(RDiv(sleep_hours, Rat(15, 2)), Num(60)))
         ELSE RMax(Num(0),
                   RSub(Num(60),
                        RMul(RDiv(RSub(sleep_hours, Rat(17, 2)), Rat(5, 2)),
                             Num(20))))

\* Mutant: efficiency above the 85% target keeps earning points.
efficiency_score_uncapped(efficiency) ==
    RMul(RDiv(efficiency, Num(85)), Num(40))

efficiency_score(efficiency) ==
    IF RLe(efficiency, Num(85))
    THEN RMin(Num(40), RMul(RDiv(efficiency, Num(85)), Num(40)))
    ELSE Num(40)

calculate_sleep_score(sleep_hours, efficiency) ==
    RAdd(duration_score(sleep_hours), efficiency_score(efficiency))

(***************************************************************************)
(* Data model: users, night strings, rows, DataFrames and CSV files.       *)
(***************************************************************************)
Users == {"eileen"}

Threads == {1, 2}

column_order ==
    <<"night", "AsleepUnspecified", "Awake", "Core", "Deep", "InBed", "REM",
      "TotalSleepHours">>

Columns == {column_order[i] : i \in 1..Len(column_order)}

\* The night string "YYYY-MM-DD" of day number d, with or without a time of day.
Night(d, sfx) == [date |-> d, sfx |-> sfx, wf |-> TRUE]

\* str[:10]
Str10(night) == [night EXCEPT !.sfx = FALSE]

\* pd.to_datetime(night, format='%Y-%m-%d', errors='coerce'): NaT unless the
\* whole string is a date.
IsNaT(night) == night.sfx \/ ~night.wf

\* Hour profiles a client submits (half hours): 6.0 h asleep of 8.0 h in
\* bed, 8.0 h of 8.5 h, and the all-default entry.
ProfileA ==
    [AsleepUnspecified |-> 0, Awake |-> 4, Core |-> 7, Deep |-> 2,
     InBed |-> 16, REM |-> 3, TotalSleepHours |-> 12]

ProfileB ==
    [AsleepUnspecified |-> 1, Awake |-> 1, Core |-> 9, Deep |-> 3,
     InBed |-> 17, REM |-> 4, TotalSleepHours |-> 16]

ProfileZero ==
    [AsleepUnspecified |-> 0, Awake |-> 0, Core |-> 0, Deep |-> 0,
     InBed |-> 0, REM |-> 0, TotalSleepHours |-> 0]

\* SleepLogEntry with the defaults filled in, as the new_row dictionary.
new_row(night, p) ==
    [night |-> night, AsleepUnspecified |-> p.AsleepUnspecified,
     Awake |-> p.Awake, Core |-> p.Core, Deep |-> p.Deep, InBed |-> p.InBed,
     REM |-> p.REM, TotalSleepHours |-> p.TotalSleepHours]

Entries ==
    {new_row(Night(d, sfx), p) :
        d \in 1..MaxNight, sfx \in BOOLEAN, p \in {ProfileA, ProfileB}}

\* The entries of the interleaved requests: plain dates.
ConcEntries ==
    {new_row(Night(d, FALSE), p) : d \in 1..MaxConcNight, p \in {ProfileA, ProfileB}}

NoEntry == new_row([date |-> 0, sfx |-> FALSE, wf |-> FALSE], ProfileZero)

Absent == [exists |-> FALSE, hdr |-> FALSE, rows |-> <<>>]

ZeroBytes == [exists |-> TRUE, hdr |-> FALSE, rows |-> <<>>]

Csv(rows) == [exists |-> TRUE, hdr |-> TRUE, rows |-> rows]

(***************************************************************************)
(* DataFrame operations used by log_sleep and get_sleep_for_user.          *)
(***************************************************************************)
\* Mutant: the nights are never cut to 10 characters.
KeepNights(df) == df

\* df['night'] = df['night'].astype(str).str[:10]
TruncateNights(df) ==
    [i \in 1..Len(df) |-> [df[i] EXCEPT !.night = Str10(df[i].night)]]

\* Mutant: the mask df['night'] == entry_date_str selects no row.
PositionsNone(df, night10) == {}

\* existing_mask = df['night'] == entry_date_str
Positions(df, night10) == {i \in 1..Len(df) : df[i].night = night10}

SelectRows(df, keep) ==
    LET F[i \in 0..Len(df)] ==
            IF i = 0 THEN <<>>
            ELSE IF i \in keep THEN Append(F[i - 1], df[i]) ELSE F[i - 1]
    IN  F[Len(df)]

Min(S) == CHOOSE x \in S : \A y \in S : x <= y

\* df.sort_values('_night_datetime'): ascending, NaT last in their stored
\* order; the order of rows with equal dates is the sort algorithm's
\* (kind='quicksort' is not stable), so every sorted order is an outcome.
SortedPerms(df) ==
    {p \in [1..Len(df) -> 1..Len(df)] :
        /\ \A i, j \in 1..Len(df) : i # j => p[i] # p[j]
        /\ \A i, j \in 1..Len(df) :
              i < j =>
                LET a == df[p[i]].night
                    b == df[p[j]].night
                IN  /\ IsNaT(a) => (IsNaT(b) /\ p[i] < p[j])
                    /\ (~IsNaT(a) /\ ~IsNaT(b)) => a.date <= b.date}

\* Mutant: the rows whose date is NaT are dropped by the sort.
sort_values_dropna(df) ==
    LET kept == SelectRows(df, {i \in 1..Len(df) : ~IsNaT(df[i].night)})
    IN  {[i \in 1..Len(kept) |-> kept[p[i]]] : p \in SortedPerms(kept)}

sort_values(df) == {[i \in 1..Len(df) |-> df[p[i]]] : p \in SortedPerms(df)}

(***************************************************************************)
(* log_sleep: the merge of the incoming entry into the loaded DataFrame.   *)
(***************************************************************************)
\* Mutant: the update leaves the InBed column as it was.
update_row_keep_in_bed(old, new) ==
    [c \in DOMAIN old |-> IF c \in DOMAIN new /\ c # "InBed" THEN new[c] ELSE old[c]]

\* for col in new_row.keys(): if col in df.columns: df.loc[mask, col] = ...
update_row(old, new) ==
    [c \in DOMAIN old |-> IF c \in DOMAIN new THEN new[c] ELSE old[c]]

\* Mutant: the incoming values are written to every row.
UpdateRowsAll(df, mask, new) ==
    [i \in 1..Len(df) |-> update_row(df[i], new)]

UpdateRows(df, mask, new) ==
    [i \in 1..Len(df) |-> IF i \in mask THEN update_row(df[i], new) ELSE df[i]]

\* Mutant: the rows that match beyond the first are kept.
DropDuplicatesNone(df, matching) == df

\* if len(matching_indices) > 1: keep the rows that do not match and the
\* first one that does; the mask then selects that first one.
DropDuplicates(df, matching) ==
    IF Cardinality(matching) > 1
    THEN SelectRows(df, ((1..Len(df)) \ matching) \cup {Min(matching)})
    ELSE df

\* Mutant: the incoming night is compared as submitted, time of day included.
entry_date_str_raw(entry) == entry.night

\* entry_date_str = str(sleep_entry.night)[:10]
entry_date_str(entry) == Str10(entry.night)

\* The try block up to the sort: the DataFrame and the action.
Merge(f, entry) ==
    IF f.exists
    THEN LET df == TruncateNights(f.rows)
             matching == Positions(df, entry_date_str(entry))
         IN  IF matching # {}
             THEN LET kept == DropDuplicates(df, matching)
                      existing_mask ==
                          IF Cardinality(matching) > 1
                          THEN {Min(matching)}
                          ELSE matching
                  IN  [df |-> UpdateRows(kept, existing_mask, entry),
                       action |-> "updated"]
             ELSE [df |-> Append(df, entry), action |-> "added"]
    ELSE [df |-> <<entry>>, action |-> "added"]

\* The sort block: the outcomes of sorting by the parsed date, the nights
\* then cut to their first 10 characters.
SortAndNormalize(df) == {TruncateNights(s) : s \in sort_values(df)}

\* The lines of f after the first k lines were overwritten from offset 0 by
\* the header and the first k - 1 rows of df.
Overlay(f, df, k) ==
    IF k = 0 THEN f
    ELSE Csv(SubSeq(df, 1, k - 1) \o SubSeq(f.rows, k, Len(f.rows)))

\* Mutant: the records are returned in stored order.
LoadViewsUnsorted(f) == {TruncateNights(f.rows)}

\* get_sleep_for_user: the records returned for a readable file.
LoadViews(f) == SortAndNormalize(TruncateNights(f.rows))

(***************************************************************************)
(* Request threads.                                                        *)
(***************************************************************************)
IdleThread ==
    [pc |-> "idle", op |-> "none", user |-> "none", entry |-> NoEntry,
     df |-> <<>>, action |-> "none", status |-> "none",
     old |-> Absent, again |-> FALSE, view |-> <<>>, racing |-> FALSE,
     seen_old |-> Absent, seen_new |-> <<>>]

NoCmp ==
    [status |-> "none", detail |-> "", user |-> "none", latest_date |-> 0,
     latest_efficiency |-> Num(0), comparison_available |-> FALSE,
     week_ago_date |-> 0, week_ago_efficiency |-> Num(0),
     latest_score |-> Num(0), week_ago_score |-> Num(0),
     percentage_change |-> Num(0), change_status |-> "none"]

NoSc == [total |-> 0, in_bed |-> 0, done |-> FALSE, score |-> Num(0)]

Ready(t) == thr[t].pc \in {"idle", "done"}

\* The request repeats the upsert this thread completed last, on the file
\* that upsert left.
Repeats(t, u, e) ==
    /\ thr[t].pc = "done"
    /\ thr[t].op = "log"
    /\ thr[t].status = "ok"
    /\ thr[t].user = u
    /\ thr[t].entry = e
    /\ file[u] = Csv(thr[t].df)

\* Mutant: every user's upsert goes to the same file.
file_path_shared(username) == "eileen"

\* file_path = DATA_DIR / f"sleep_by_night_{username}.csv"
file_path(username) == username

\* log_sleep up to the sort: exists(), read_csv, merge, sort.  read_csv
\* raises EmptyDataError on a zero-byte file, which the handler turns into
\* a 500 response.
LogLoad(t, u, e) ==
    /\ Ready(t)
    /\ IF file[file_path(u)].exists /\ ~file[file_path(u)].hdr
       THEN thr' = [thr EXCEPT ![t] =
                       [IdleThread EXCEPT !.pc = "done", !.op = "log",
                                          !.user = u, !.entry = e,
                                          !.status = "error",
                                          !.old = file[file_path(u)]]]
       ELSE LET m == Merge(file[file_path(u)], e)
            IN  /\ Len(m.df) <= MaxRows
                /\ \E df \in SortAndNormalize(m.df) :
                      thr' = [thr EXCEPT ![t] =
                                 [IdleThread EXCEPT !.pc = "merged",
                                                    !.op = "log",
                                                    !.user = u, !.entry = e,
                                                    !.df = df,
                                                    !.action = m.action,
                                                    !.old = file[file_path(u)],
                                                    !.again = Repeats(t, u, e)]]
    /\ UNCHANGED <<file, cmp, sc>>

\* df.to_csv(file_path): the path is opened with mode 'w'.
LogOpen(t) ==
    /\ thr[t].pc = "merged"
    /\ thr' = [thr EXCEPT ![t].pc = "opened",
                          ![t].old = file[file_path(thr[t].user)]]
    /\ file' = [file EXCEPT ![file_path(thr[t].user)] = ZeroBytes]
    /\ UNCHANGED <<cmp, sc>>

\* The text is written and the handler returns the action.
LogWrite(t) ==
    /\ thr[t].pc = "opened"
    /\ file' = [file EXCEPT ![file_path(thr[t].user)] =
                   Overlay(@, thr[t].df, Len(thr[t].df) + 1)]
    /\ thr' = [thr EXCEPT ![t].pc = "done", ![t].status = "ok"]
    /\ UNCHANGED <<cmp, sc>>

\* The write raises (OSError) after k lines reached the file; the except
\* clause answers 500.
LogWriteFail(t, k) ==
    /\ thr[t].pc = "opened"
    /\ k \in 0..Len(thr[t].df)
    /\ file' = [file EXCEPT ![file_path(thr[t].user)] = Overlay(@, thr[t].df, k)]
    /\ thr' = [thr EXCEPT ![t].pc = "done", ![t].status = "error"]
    /\ UNCHANGED <<cmp, sc>>

\* The upsert another thread is persisting into u's file, if any.
Writers(t, u) ==
    {w \in Threads \ {t} : thr[w].pc = "opened" /\ thr[w].user = u}

\* get_sleep_for_user: 404 without a file; read_csv raises on a zero-byte
\* file (an unhandled exception, answered 500).
GetSleep(t, u) ==
    /\ Ready(t)
    /\ LET base == [IdleThread EXCEPT !.pc = "done", !.op = "get", !.user = u]
           seen ==
               IF Writers(t, u) = {} THEN base
               ELSE LET w == CHOOSE w \in Writers(t, u) : TRUE
                    IN  [base EXCEPT !.racing = TRUE,
                                     !.seen_old = thr[w].old,
                                     !.seen_new = thr[w].df]
       IN  IF ~file[u].exists
           THEN thr' = [thr EXCEPT ![t] = [seen EXCEPT !.status = "404"]]
           ELSE IF ~file[u].hdr
                THEN thr' = [thr EXCEPT ![t] = [seen EXCEPT !.status = "500"]]
                ELSE \E v \in LoadViews(file[u]) :
                        thr' = [thr EXCEPT ![t] =
                                   [seen EXCEPT !.status = "ok", !.view = v]]
    /\ UNCHANGED <<file, cmp, sc>>

\* The column names a client asks get_sleep_value for: two stored columns
\* and one the file does not have.
ValueColumns == {"TotalSleepHours", "InBed", "Naps"}

\* get_sleep_value: 404 without a file, 400 for a column the file does not
\* have, else the stored night and value of every row, in stored order.
\* read_csv raises on a zero-byte file (unhandled, answered 500).
GetSleepValue(t, u, column_name) ==
    /\ Ready(t)
    /\ LET base == [IdleThread EXCEPT !.pc = "done", !.op = "value", !.user = u]
           rows == file[u].rows
       IN  IF ~file[u].exists
           THEN thr' = [thr EXCEPT ![t] = [base EXCEPT !.status = "404"]]
           ELSE IF ~file[u].hdr
                THEN thr' = [thr EXCEPT ![t] = [base EXCEPT !.status = "500"]]
                ELSE IF column_name \notin Columns
                     THEN thr' = [thr EXCEPT ![t] = [base EXCEPT !.status = "400"]]
                     ELSE thr' = [thr EXCEPT ![t] =
                                     [base EXCEPT
                                         !.status = "ok",
                                         !.view =
                                             [i \in 1..Len(rows) |->
                                                 [night |-> rows[i].night,
                                                  value |-> rows[i][column_name]]]]]
    /\ UNCHANGED <<file, cmp, sc>>

Step(t) ==
    \/ \E u \in Users, e \in Entries : LogLoad(t, u, e)
    \/ LogOpen(t)
    \/ LogWrite(t)
    \/ \E k \in 0..MaxRows : LogWriteFail(t, k)
    \/ \E u \in Users : GetSleep(t, u)

Init ==
    /\ file = [u \in Users |-> Absent]
    /\ thr = [t \in Threads |-> IdleThread]
    /\ cmp = NoCmp
    /\ sc = NoSc
    /\ started = 0

\* One request at a time: a sequence of requests.
Next == Step(1) /\ UNCHANGED started

Spec == Init /\ [][Next]_vars

\* The thread pool: requests interleave (write faults are left to Spec).
\* The model follows the first MaxConcRequests requests.
ConcStep(t) ==
    \/ /\ started < MaxConcRequests
       /\ started' = started + 1
       /\ \/ \E u \in Users, e \in ConcEntries : LogLoad(t, u, e)
          \/ \E u \in Users : GetSleep(t, u)
    \/ /\ UNCHANGED started
       /\ \/ LogOpen(t)
          \/ LogWrite(t)

ConcNext == \E t \in Threads : ConcStep(t)

ConcSpec == Init /\ [][ConcNext]_vars

(***************************************************************************)
(* Files that are already in the data directory when the server starts:    *)
(* the output of the record-generation scripts or a hand-edited CSV.  The  *)
(* handlers read them with the same code, so their nights are any strings: *)
(* dates, dates with a time of day, text that is no date, and the same     *)
(* date more than once.                                                    *)
(***************************************************************************)
BadNight == [date |-> 0, sfx |-> FALSE, wf |-> FALSE]

\* The stored nights: the first day with or without a time of day, and a
\* text that is no date.
StoredNights == {Night(1, sfx) : sfx \in BOOLEAN} \cup {BadNight}

StoredFiles ==
    {Csv([i \in 1..n |-> new_row(g[i], ProfileB)]) :
        n \in 0..MaxStoredRows, g \in [1..MaxStoredRows -> StoredNights]}

StoredInit ==
    /\ file \in [Users -> StoredFiles]
    /\ thr = [t \in Threads |-> IdleThread]
    /\ cmp = NoCmp
    /\ sc = NoSc
    /\ started = 0

\* One request at a time; the model follows the first MaxStoredRequests
\* requests.
StoredNext ==
    /\ Step(1)
    /\ IF Ready(1)
       THEN started < MaxStoredRequests /\ started' = started + 1
       ELSE UNCHANGED started

StoredSpec == StoredInit /\ [][StoredNext]_vars

(***************************************************************************)
(* generate_schedule, phase 1: the week-over-week comparison.              *)
(***************************************************************************)
WeekDays == 7

Tolerance == 3

\* df.sort_values('night', ascending=False): the orders by descending date.
SortedDescPerms(df) ==
    {p \in [1..Len(df) -> 1..Len(df)] :
        /\ \A i, j \in 1..Len(df) : i # j => p[i] # p[j]
        /\ \A i, j \in 1..Len(df) :
              i < j => df[p[i]].night.date >= df[p[j]].night.date}

sort_values_desc(df) ==
    {[i \in 1..Len(df) |-> df[p[i]]] : p \in SortedDescPerms(df)}

\* Mutant: the record before the latest is the reference, however far back.
week_ago_index_any(df, target_date) == IF Len(df) > 1 THEN 2 ELSE 0

\* for idx, row in df.iterrows(): the first row within the tolerance of the
\* target date, 0 when there is none.
week_ago_index(df, target_date) ==
    LET hits == {i \in 1..Len(df) :
                    Abs(df[i].night.date - target_date) <= Tolerance}
    IN  IF hits = {} THEN 0 ELSE Min(hits)

\* Mutant: the quotient is taken whatever the reference score.
percentage_change_unguarded(latest_score, week_ago_score) ==
    RMul(RDiv(RSub(latest_score, week_ago_score), week_ago_score), Num(100))

percentage_change(latest_score, week_ago_score) ==
    IF RLt(Num(0), week_ago_score)
    THEN RMul(RDiv(RSub(latest_score, week_ago_score), week_ago_score), Num(100))
    ELSE IF latest_score = Num(0) THEN Num(0) ELSE Num(100)

\* Mutant: a change of 0 counts as an improvement.
change_status_nonnegative(pct) ==
    IF RLe(Num(0), pct) THEN "improved" ELSE "worsened"

change_status(pct) ==
    IF RLt(Num(0), pct) THEN "improved"
    ELSE IF RLt(pct, Num(0)) THEN "worsened" ELSE "unchanged"

\* Mutant: the target is the latest date itself.
week_ago_target_today(latest_date) == latest_date

\* target_date = latest_date - pd.Timedelta(days=7)
week_ago_target(latest_date) == latest_date - WeekDays

\* The analysis of a DataFrame sorted by descending date.
Analysis(u, df) ==
    LET latest_day == df[1]
        latest_sleep == Hours(latest_day.TotalSleepHours)
        latest_in_bed == Hours(latest_day.InBed)
        latest_efficiency == Efficiency(latest_sleep, latest_in_bed)
        target_date == week_ago_target(latest_day.night.date)
        w == week_ago_index(df, target_date)
        base == [NoCmp EXCEPT !.status = "ok", !.user = u,
                              !.latest_date = latest_day.night.date,
                              !.latest_efficiency = latest_efficiency]
    IN  IF w # 0
        THEN LET week_ago_sleep == Hours(df[w].TotalSleepHours)
                 week_ago_in_bed == Hours(df[w].InBed)
                 week_ago_efficiency ==
                     Efficiency(week_ago_sleep, week_ago_in_bed)
                 latest_score ==
                     calculate_sleep_score(latest_sleep, latest_efficiency)
                 week_ago_score ==
                     calculate_sleep_score(week_ago_sleep, week_ago_efficiency)
                 pct == percentage_change(latest_score, week_ago_score)
             IN  [base EXCEPT !.comparison_available = TRUE,
                              !.week_ago_date = df[w].night.date,
                              !.week_ago_efficiency = week_ago_efficiency,
                              !.latest_score = latest_score,
                              !.week_ago_score = week_ago_score,
                              !.percentage_change = pct,
                              !.change_status = change_status(pct)]
        ELSE base

\* Mutant: an empty DataFrame is not noticed.
no_data_unchecked(df) == FALSE

\* if len(df) == 0: raise ValueError("No sleep data available")
no_data(df) == Len(df) = 0

\* generate_schedule up to the prompt.  The 404 raised inside the try block
\* is an Exception and leaves through the last except clause as a 500;
\* EmptyDataError, a date that does not parse and "No sleep data available"
\* are ValueErrors, answered 400 with their message as the detail.  Past
\* the check for no data, df.iloc[0] of an empty DataFrame is an IndexError
\* (500).  pd.to_datetime(df['night']) takes the format of the first night
\* for all of them, so dates stored with and without a time of day in one
\* file are a ValueError too; the time of day of a file that has one in
\* every row is the same in every row.
GenerateSchedule(u) ==
    /\ cmp.status = "none"
    /\ IF ~file[u].exists
       THEN cmp' = [NoCmp EXCEPT !.status = "500", !.user = u,
                                 !.detail = "An internal server error occurred"]
       ELSE IF ~file[u].hdr
       THEN cmp' = [NoCmp EXCEPT !.status = "400", !.user = u,
                                 !.detail = "No columns to parse from file"]
       ELSE IF \E i \in 1..Len(file[u].rows) : ~file[u].rows[i].night.wf
       THEN cmp' = [NoCmp EXCEPT !.status = "400", !.user = u,
                                 !.detail = "Unknown datetime string format"]
       ELSE IF \E i, j \in 1..Len(file[u].rows) :
                  file[u].rows[i].night.sfx # file[u].rows[j].night.sfx
       THEN cmp' = [NoCmp EXCEPT !.status = "400", !.user = u,
                                 !.detail = "unconverted data remains"]
       ELSE IF no_data(file[u].rows)
       THEN cmp' = [NoCmp EXCEPT !.status = "400", !.user = u,
                                 !.detail = "No sleep data available"]
       ELSE IF Len(file[u].rows) = 0
       THEN cmp' = [NoCmp EXCEPT !.status = "500", !.user = u,
                                 !.detail = "An internal server error occurred"]
       ELSE \E df \in sort_values_desc(file[u].rows) :
               cmp' = Analysis(u, df)
    /\ UNCHANGED <<file, thr, sc, started>>

\* The stored collections the comparison is run on: at most MaxCmpRows rows
\* of distinct dates in 1..MaxDay, in ascending order.
CmpProfiles == {ProfileA, ProfileB, ProfileZero}

RECURSIVE Ascending(_)
Ascending(S) ==
    IF S = {} THEN <<>>
    ELSE LET m == Min(S) IN <<m>> \o Ascending(S \ {m})

CollectionsOn(S) ==
    LET days == Ascending(S)
    IN  {[i \in 1..Len(days) |-> new_row(Night(days[i], FALSE), g[days[i]])] :
            g \in [S -> CmpProfiles]}

CmpDaySets == {T \in SUBSET (1..MaxDay) : Cardinality(T) <= MaxCmpRows}

CmpInit ==
    /\ \E S \in CmpDaySets :
          \E rows \in CollectionsOn(S) :
              file = [u \in Users |-> Csv(rows)]
    /\ thr = [t \in Threads |-> IdleThread]
    /\ cmp = NoCmp
    /\ sc = NoSc
    /\ started = 0

CmpNext == \E u \in Users : GenerateSchedule(u)

CmpSpec == CmpInit /\ [][CmpNext]_vars

(***************************************************************************)
(* The read operations on any state of a user's file: no file, a           *)
(* zero-byte file, or a stored collection.                                 *)
(***************************************************************************)
ReadInit ==
    /\ \/ file \in [Users -> {Absent, ZeroBytes}]
       \/ \E S \in SUBSET (1..MaxNight) :
              \E rows \in CollectionsOn(S) :
                  file = [u \in Users |-> Csv(rows)]
    /\ thr = [t \in Threads |-> IdleThread]
    /\ cmp = NoCmp
    /\ sc = NoSc
    /\ started = 0

ReadNext ==
    \/ /\ \E u \in Users : GetSleep(1, u)
       /\ UNCHANGED started
    \/ /\ \E u \in Users, c \in ValueColumns : GetSleepValue(1, u, c)
       /\ UNCHANGED started
    \/ \E u \in Users : GenerateSchedule(u)

ReadSpec == ReadInit /\ [][ReadNext]_vars

(***************************************************************************)
(* One request (an upsert, a read or a comparison) on a file that did not  *)
(* come from log_sleep: its rows are in any order and their nights are     *)
(* dates, a date with a time of day, or a text that is no date.  Row i has *)
(* the hour profile of its position, which tells the rows apart.           *)
(***************************************************************************)
LoadNights == {Night(1, FALSE), Night(2, FALSE), Night(2, TRUE), BadNight}

LoadProfiles == <<ProfileA, ProfileB, ProfileZero>>

LoadFiles ==
    {Csv([i \in 1..n |->
             new_row(g[i], LoadProfiles[((i - 1) % Len(LoadProfiles)) + 1])]) :
        n \in 0..MaxLoadRows, g \in [1..MaxLoadRows -> LoadNights]}

LoadInit ==
    /\ file \in [Users -> LoadFiles]
    /\ thr = [t \in Threads |-> IdleThread]
    /\ cmp = NoCmp
    /\ sc = NoSc
    /\ started = 0

\* The one request of a behaviour, on any user that has a file variable.
RequestNext ==
    \/ /\ started = 0
       /\ cmp.status = "none"
       /\ started' = 1
       /\ \/ \E u \in DOMAIN file, e \in Entries : LogLoad(1, u, e)
          \/ \E u \in DOMAIN file : GetSleep(1, u)
          \/ \E u \in DOMAIN file, c \in ValueColumns : GetSleepValue(1, u, c)
    \/ /\ UNCHANGED started
       /\ \/ LogOpen(1)
          \/ LogWrite(1)
          \/ \E k \in 0..MaxRows : LogWriteFail(1, k)
    \/ /\ started = 0
       /\ \E u \in DOMAIN file : GenerateSchedule(u)

LoadSpec == LoadInit /\ [][RequestNext]_vars

(***************************************************************************)
(* Two users, each with a file of their own (or none), and one request.    *)
(***************************************************************************)
IsoUsers == {"eileen", "noor"}

IsoFiles ==
    {Absent, ZeroBytes, Csv(<<>>), Csv(<<new_row(Night(1, FALSE), ProfileB)>>)}

IsoInit ==
    /\ file \in [IsoUsers -> IsoFiles]
    /\ thr = [t \in Threads |-> IdleThread]
    /\ cmp = NoCmp
    /\ sc = NoSc
    /\ started = 0

IsoSpec == IsoInit /\ [][RequestNext]_vars

(***************************************************************************)
(* The composite score as a function of a record's stored hours.           *)
(***************************************************************************)
composite_score(total, in_bed) ==
    calculate_sleep_score(Hours(total), Efficiency(Hours(total), Hours(in_bed)))

ScoreInit ==
    /\ \E total \in 0..MaxHalfHours, in_bed \in 0..MaxHalfHours :
          sc = [NoSc EXCEPT !.total = total, !.in_bed = in_bed]
    /\ file = [u \in Users |-> Absent]
    /\ thr = [t \in Threads |-> IdleThread]
    /\ cmp = NoCmp
    /\ started = 0

ScoreRecord ==
    /\ ~sc.done
    /\ sc' = [sc EXCEPT !.done = TRUE,
                        !.score = composite_score(sc.total, sc.in_bed)]
    /\ UNCHANGED <<file, thr, cmp, started>>

ScoreSpec == ScoreInit /\ [][ScoreRecord]_vars

(***************************************************************************)
(* Properties.                                                             *)
(***************************************************************************)
IsLogDone(t) == thr[t].pc = "done" /\ thr[t].op = "log"

LogOk(t) == IsLogDone(t) /\ thr[t].status = "ok"

\* The rows of the collection a request loaded that carry the entry's date.
OldMatches(t) ==
    {i \in 1..Len(thr[t].old.rows) :
        Str10(thr[t].old.rows[i].night) = Str10(thr[t].entry.night)}

\* The rows of the persisted collection that carry the entry's date.
NewMatches(t) ==
    {i \in 1..Len(file[thr[t].user].rows) :
        Str10(file[thr[t].user].rows[i].night) = Str10(thr[t].entry.night)}

\* The incoming record as it is stored: its date and its seven hour fields.
Stored(entry) == [entry EXCEPT !.night = Str10(entry.night)]

\* C1: from no backing file, after any sequence of upserts the persisted
\* collection holds no two records with the same normalized (10-character)
\* date.
C1_UniqueNights ==
    \A u \in Users :
        \A i, j \in 1..Len(file[u].rows) :
            i # j => Str10(file[u].rows[i].night) # Str10(file[u].rows[j].night)

C1_Witness ==
    /\ LogOk(1)
    /\ thr[1].action = "updated"
    /\ thr[1].entry.night.sfx
    /\ Len(file[thr[1].user].rows) >= 2

\* C2: two log_sleep requests for the same user with different dates, both
\* completed, leave both records in the persisted collection, whatever the
\* interleaving of their steps.
C2_NoLostUpdate ==
    \A t1, t2 \in Threads :
        (/\ t1 # t2
         /\ LogOk(t1)
         /\ LogOk(t2)
         /\ thr[t1].user = thr[t2].user
         /\ Str10(thr[t1].entry.night) # Str10(thr[t2].entry.night))
        => (NewMatches(t1) # {} /\ NewMatches(t2) # {})

\* The response of reader t is the one a file with content f gives.
ReadsAs(t, f) ==
    IF f.exists
    THEN f.hdr /\ thr[t].status = "ok" /\ thr[t].view \in LoadViews(f)
    ELSE thr[t].status = "404"

\* C3: a reader that loads the file while an upsert is persisting it gets
\* the complete collection of before the upsert or the complete collection
\* of after it.
C3_ReaderSeesOldOrNew ==
    \A t \in Threads :
        (thr[t].pc = "done" /\ thr[t].op = "get" /\ thr[t].racing)
        => (ReadsAs(t, thr[t].seen_old) \/ ReadsAs(t, Csv(thr[t].seen_new)))

\* C4: the reference record is the one closest to target = latest - 7 days
\* among the records within 3 days of target, the earlier one of two at the
\* same distance (so the record 7 days back wins over the one 4 days back).
C4_ClosestReference ==
    cmp.status = "ok" =>
        LET rows == file[cmp.user].rows
            target == cmp.latest_date - WeekDays
            dist(i) == Abs(rows[i].night.date - target)
            cands == {i \in 1..Len(rows) : dist(i) <= Tolerance}
            best == {i \in cands :
                        \A j \in cands :
                            \/ dist(i) < dist(j)
                            \/ /\ dist(i) = dist(j)
                               /\ rows[i].night.date <= rows[j].night.date}
        IN  IF cands = {}
            THEN ~cmp.comparison_available
            ELSE /\ cmp.comparison_available
                 /\ \E i \in best : cmp.week_ago_date = rows[i].night.date

\* C5: an upsert that repeats the previous one leaves the persisted
\* collection as the first application left it and reports "updated".
C5_Idempotent ==
    \A t \in Threads :
        (LogOk(t) /\ thr[t].again)
        => (file[thr[t].user] = thr[t].old /\ thr[t].action = "updated")

C5_Witness ==
    /\ LogOk(1)
    /\ thr[1].again
    /\ thr[1].entry.night.sfx
    /\ Len(file[thr[1].user].rows) >= 2

\* C6: when no stored record has the incoming date (or there is no file
\* yet), the upsert reports "added", the collection grows by exactly one
\* and holds exactly one record of that date, carrying the incoming fields.
C6_Inserted ==
    \A t \in Threads :
        (LogOk(t) /\ OldMatches(t) = {})
        => /\ thr[t].action = "added"
           /\ file[thr[t].user].exists
           /\ file[thr[t].user].hdr
           /\ Len(file[thr[t].user].rows) = Len(thr[t].old.rows) + 1
           /\ Cardinality(NewMatches(t)) = 1
           /\ \A i \in NewMatches(t) :
                 file[thr[t].user].rows[i] = Stored(thr[t].entry)

C6_Witness ==
    /\ LogOk(1)
    /\ thr[1].action = "added"
    /\ thr[1].old.exists
    /\ Len(thr[1].old.rows) >= 1
    /\ thr[1].entry.night.sfx

\* C7: when exactly one stored record has the incoming date, the upsert
\* reports "updated", the number of records is unchanged and that record
\* carries the incoming values in all seven hour fields and night.
C7_Updated ==
    \A t \in Threads :
        (LogOk(t) /\ Cardinality(OldMatches(t)) = 1)
        => /\ thr[t].action = "updated"
           /\ Len(file[thr[t].user].rows) = Len(thr[t].old.rows)
           /\ Cardinality(NewMatches(t)) = 1
           /\ \A i \in NewMatches(t) :
                 file[thr[t].user].rows[i] = Stored(thr[t].entry)

C7_Witness ==
    /\ LogOk(1)
    /\ thr[1].action = "updated"
    /\ Cardinality(OldMatches(1)) = 1
    /\ \A i \in OldMatches(1) :
          \A c \in Columns \ {"night"} :
              thr[1].old.rows[i][c] # thr[1].entry[c]

\* C8: for non-negative hours the composite score lies in [0, 100].
C8_ScoreRange ==
    sc.done =>
        /\ IsNum(sc.score)
        /\ RLe(Num(0), sc.score)
        /\ RLe(sc.score, Num(100))

C8_Witness ==
    /\ sc.done
    /\ sc.total > 32
    /\ sc.in_bed > 0
    /\ sc.in_bed < sc.total
    /\ sc.score = Num(40)

\* The stored record of day d in the collection the comparison read.
CmpRow(d) ==
    LET rows == file[cmp.user].rows
    IN  rows[CHOOSE i \in 1..Len(rows) : rows[i].night.date = d]

\* C9: the comparison of a non-empty collection does not fail on degenerate
\* records: a record with InBed = 0 gets efficiency 0, and one with
\* TotalSleepHours = 0 and InBed = 0 scores 0, as the latest record and as
\* the reference record.
C9_DegenerateScores ==
    (cmp.status # "none" /\ Len(file[cmp.user].rows) > 0)
    => /\ cmp.status = "ok"
       /\ CmpRow(cmp.latest_date).InBed = 0
             => cmp.latest_efficiency = Num(0)
       /\ cmp.comparison_available
             => /\ IsNum(cmp.latest_score)
                /\ IsNum(cmp.week_ago_score)
                /\ IsNum(cmp.percentage_change)
                /\ CmpRow(cmp.week_ago_date).InBed = 0
                      => cmp.week_ago_efficiency = Num(0)
                /\ (/\ CmpRow(cmp.latest_date).InBed = 0
                    /\ CmpRow(cmp.latest_date).TotalSleepHours = 0)
                      => cmp.latest_score = Num(0)
                /\ (/\ CmpRow(cmp.week_ago_date).InBed = 0
                    /\ CmpRow(cmp.week_ago_date).TotalSleepHours = 0)
                      => cmp.week_ago_score = Num(0)

C9_Witness ==
    /\ cmp.status = "ok"
    /\ cmp.comparison_available
    /\ CmpRow(cmp.latest_date) = new_row(Night(cmp.latest_date, FALSE), ProfileZero)
    /\ CmpRow(cmp.week_ago_date) = new_row(Night(cmp.week_ago_date, FALSE), ProfileZero)

\* C10: an upsert that fails ends in an error and leaves the persisted file
\* exactly as it was before the request.
C10_AllOrNothing ==
    \A t \in Threads :
        (IsLogDone(t) /\ thr[t].status = "error")
        => file[thr[t].user] = thr[t].old

\* Two rows of df carry the same normalized date.
HasDuplicates(df) ==
    \E i, j \in 1..Len(df) :
        /\ i < j
        /\ df[i].night.wf
        /\ df[j].night.wf
        /\ Str10(df[i].night) = Str10(df[j].night)

\* C11: when the collection an upsert is about to persist holds two records
\* of the same normalized date (a duplicate that was already stored, on a
\* date other than the incoming one), the save fails and nothing is written:
\* the request ends in an error and the file is as it was.
C11_SaveRejectsDuplicates ==
    \A t \in Threads :
        (/\ thr[t].op = "log"
         /\ thr[t].pc \in {"opened", "done"}
         /\ HasDuplicates(thr[t].df))
        => (thr[t].status = "error" /\ file[thr[t].user] = thr[t].old)

\* C12: every read operation on a user without a backing file (the records
\* of get_sleep_for_user, the column of get_sleep_value, the comparison of
\* generate_schedule) answers 404, apart from every other fault, and leaves
\* the user without a file.
C12_MissingFileNotFound ==
    /\ \A t \in Threads :
          (thr[t].pc = "done" /\ thr[t].op \in {"get", "value"})
          => (thr[t].status = "404" <=> file[thr[t].user] = Absent)
    /\ cmp.status # "none"
          => (cmp.status = "404" <=> file[cmp.user] = Absent)

\* C13: the comparison of a collection of zero records (the file exists and
\* has its header but no data row) produces no comparison: it fails with
\* the no-data error, "No sleep data available", answered 400.
C13_EmptyData ==
    (/\ cmp.status # "none"
     /\ file[cmp.user].hdr
     /\ Len(file[cmp.user].rows) = 0)
    => /\ cmp.status = "400"
       /\ cmp.detail = "No sleep data available"
       /\ ~cmp.comparison_available
       /\ cmp.change_status = "none"

C13_Witness ==
    /\ cmp.status = "400"
    /\ file[cmp.user] = Csv(<<>>)

\* No stored record lies within Tolerance days of the latest date minus 7.
NoReference(rows) ==
    LET dates == {rows[i].night.date : i \in 1..Len(rows)}
        latest == CHOOSE d \in dates : \A e \in dates : e <= d
    IN  \A d \in dates : Abs(d - (latest - WeekDays)) > Tolerance

\* C14: on a non-empty collection with no record within 3 days of
\* (latest date - 7 days) the comparison does not fail: it reports
\* percentage change 0 and marks the comparison unavailable, with no
\* improved/worsened/unchanged status computed from scores.
C14_NoReference ==
    (/\ cmp.status # "none"
     /\ Len(file[cmp.user].rows) > 0
     /\ \A i \in 1..Len(file[cmp.user].rows) : file[cmp.user].rows[i].night.wf
     /\ NoReference(file[cmp.user].rows))
    => /\ cmp.status = "ok"
       /\ ~cmp.comparison_available
       /\ cmp.percentage_change = Num(0)
       /\ cmp.change_status = "none"

C14_Witness ==
    /\ cmp.status = "ok"
    /\ ~cmp.comparison_available
    /\ Len(file[cmp.user].rows) >= 2
    /\ \E i \in 1..Len(file[cmp.user].rows) :
          file[cmp.user].rows[i].night.date = cmp.latest_date - WeekDays + Tolerance + 1

\* C15: an incoming night with a time-of-day suffix whose first 10 characters
\* equal the date of a stored record is an update of that record: the
\* request reports "updated", the collection does not grow and it holds one
\* record of that date, carrying the incoming fields.
C15_SuffixCollides ==
    \A t \in Threads :
        (LogOk(t) /\ thr[t].entry.night.sfx /\ OldMatches(t) # {})
        => /\ thr[t].action = "updated"
           /\ Len(file[thr[t].user].rows) <= Len(thr[t].old.rows)
           /\ \E i \in 1..Len(file[thr[t].user].rows) :
                 /\ NewMatches(t) = {i}
                 /\ file[thr[t].user].rows[i] = Stored(thr[t].entry)

C15_Witness ==
    /\ LogOk(1)
    /\ thr[1].entry.night.sfx
    /\ thr[1].action = "updated"
    /\ Len(thr[1].old.rows) = 2
    /\ \E i \in OldMatches(1) :
          /\ ~thr[1].old.rows[i].night.sfx
          /\ thr[1].old.rows[i].TotalSleepHours # thr[1].entry.TotalSleepHours

\* The rows of the loaded collection that do not carry the entry's date, as
\* a bag of rows with their nights cut to 10 characters.
OtherRows(t, rows) ==
    LET S == {i \in 1..Len(rows) :
                 Str10(rows[i].night) # Str10(thr[t].entry.night)}
    IN  [r \in {Stored(rows[i]) : i \in S} |->
            Cardinality({i \in S : Stored(rows[i]) = r})]

C17_SortedAfterUpsert ==
    \A t \in Threads :
        LogOk(t) =>
            \A i, j \in 1..Len(file[thr[t].user].rows) :
                i < j => file[thr[t].user].rows[i].night.date
                            <= file[thr[t].user].rows[j].night.date

\* The score as the specification states it, for total and in_bed in hours.
SpecDurationPart(total) ==
    IF RLe(Rat(15, 2), total) /\ RLe(total, Rat(17, 2)) THEN Num(60)
    ELSE IF RLt(total, Rat(15, 2)) THEN RMul(RDiv(total, Rat(15, 2)), Num(60))
    ELSE RMax(Num(0),
              RSub(Num(60), RMul(RDiv(RSub(total, Rat(17, 2)), Rat(5, 2)), Num(20))))

SpecEfficiencyPart(total, in_bed) ==
    LET efficiency ==
            IF RLt(Num(0), in_bed) THEN RMul(RDiv(total, in_bed), Num(100))
            ELSE Num(0)
    IN  RMin(Num(40), RMul(RDiv(efficiency, Num(85)), Num(40)))

\* C18: for non-negative hours the computed score is the duration sub-score
\* (60 for 7.5 <= total <= 8.5, (total/7.5)*60 below, max(0, 60 -
\* ((total-8.5)/2.5)*20) above) plus the efficiency sub-score min(40,
\* (efficiency/85)*40); score(8.0, 9.0) = 100 and score(6.0, 8.0) = 48 +
\* (75/85)*40.
C18_ScoreFormula ==
    sc.done =>
        /\ sc.score = RAdd(SpecDurationPart(Hours(sc.total)),
                           SpecEfficiencyPart(Hours(sc.total), Hours(sc.in_bed)))
        /\ (sc.total = 16 /\ sc.in_bed = 18) => sc.score = Num(100)
        /\ (sc.total = 12 /\ sc.in_bed = 16)
              => sc.score = RAdd(Num(48), RMul(RDiv(Num(75), Num(85)), Num(40)))

C18_Witness ==
    /\ sc.done
    /\ sc.total = 12
    /\ sc.in_bed = 16
    /\ sc.score = Rat(1416, 17)

\* C19: when a reference record is found, the percentage change is
\* (latestScore - referenceScore) / referenceScore * 100 for a reference
\* score above 0; for a reference score of 0 it is 0 when the latest score
\* is 0 and 100 otherwise; it is always a number (no division by zero).
C19_PercentageChange ==
    (cmp.status = "ok" /\ cmp.comparison_available)
    => /\ IsNum(cmp.percentage_change)
       /\ RLe(Num(0), cmp.week_ago_score)
       /\ RLt(Num(0), cmp.week_ago_score)
             => cmp.percentage_change =
                    RMul(RDiv(RSub(cmp.latest_score, cmp.week_ago_score),
                              cmp.week_ago_score),
                         Num(100))
       /\ (cmp.week_ago_score = Num(0) /\ cmp.latest_score = Num(0))
             => cmp.percentage_change = Num(0)
       /\ (cmp.week_ago_score = Num(0) /\ cmp.latest_score # Num(0))
             => cmp.percentage_change = Num(100)

C19_Witness ==
    /\ cmp.status = "ok"
    /\ cmp.comparison_available
    /\ cmp.week_ago_score = Num(0)
    /\ RLt(Num(0), cmp.latest_score)
    /\ cmp.percentage_change = Num(100)

\* C20: when a reference record is found, the status is "improved" exactly
\* when the percentage change is above 0, "worsened" exactly when it is
\* below 0 and "unchanged" exactly when it is 0; and it is "improved"
\* exactly when the latest score is above the reference score, "worsened"
\* exactly when it is below.
C20_Assessment ==
    (cmp.status = "ok" /\ cmp.comparison_available)
    => /\ cmp.change_status \in {"improved", "worsened", "unchanged"}
       /\ cmp.change_status = "improved" <=> RLt(Num(0), cmp.percentage_change)
       /\ cmp.change_status = "worsened" <=> RLt(cmp.percentage_change, Num(0))
       /\ cmp.change_status = "unchanged" <=> cmp.percentage_change = Num(0)
       /\ cmp.change_status = "improved"
             <=> RLt(cmp.week_ago_score, cmp.latest_score)
       /\ cmp.change_status = "worsened"
             <=> RLt(cmp.latest_score, cmp.week_ago_score)

C20_Witness ==
    /\ cmp.status = "ok"
    /\ cmp.comparison_available
    /\ cmp.change_status = "unchanged"
    /\ RLt(Num(0), cmp.latest_score)
    /\ cmp.latest_date - cmp.week_ago_date = WeekDays

\* The permutations of 1..n.
Perms(n) ==
    {p \in [1..n -> 1..n] : \A i, j \in 1..n : i # j => p[i] # p[j]}

\* C21: a successful get_sleep_for_user returns every stored record exactly
\* once, its night cut to the first 10 characters: the records whose date
\* parses in ascending order of date, then the records whose date does not
\* parse, in the order they are stored in.
C21_LoadSorted ==
    \A t \in Threads :
        (thr[t].pc = "done" /\ thr[t].op = "get" /\ thr[t].status = "ok")
        => LET rows == file[thr[t].user].rows
               v == thr[t].view
           IN  /\ Len(v) = Len(rows)
               /\ \E p \in Perms(Len(rows)) :
                     /\ \A i \in 1..Len(v) : v[i] = Stored(rows[p[i]])
                     /\ \A i, j \in 1..Len(v) :
                           i < j =>
                             /\ ~v[i].night.wf => (~v[j].night.wf /\ p[i] < p[j])
                             /\ (v[i].night.wf /\ v[j].night.wf)
                                   => v[i].night.date <= v[j].night.date

C21_Witness ==
    /\ thr[1].pc = "done"
    /\ thr[1].op = "get"
    /\ thr[1].status = "ok"
    /\ Len(thr[1].view) = 3
    /\ file[thr[1].user].rows[1].night = BadNight
    /\ file[thr[1].user].rows[2].night = Night(2, TRUE)
    /\ file[thr[1].user].rows[3].night = Night(1, FALSE)
    /\ thr[1].view[1].night = Night(1, FALSE)
    /\ thr[1].view[2].night = Night(2, FALSE)
    /\ thr[1].view[3].night = BadNight

\* The stored file of user u has a row whose night is no date, next to at
\* least one row whose night is a date.
HasMalformedRow(f) ==
    /\ f.exists
    /\ f.hdr
    /\ \E i \in 1..Len(f.rows) : ~f.rows[i].night.wf
    /\ \E i \in 1..Len(f.rows) : f.rows[i].night.wf
    /\ \A i \in 1..Len(f.rows) : ~f.rows[i].night.sfx

\* The rows of a collection whose night is no date, in order.
MalformedRows(rows) ==
    SelectRows(rows, {i \in 1..Len(rows) : ~rows[i].night.wf})

\* C22: a stored row with a malformed date aborts no operation that loads
\* the collection: the upsert, the read and the comparison complete
\* successfully on the well-formed rows, and the upsert keeps the malformed
\* row in the persisted file.
C22_MalformedRowTolerated ==
    /\ \A t \in Threads :
          (thr[t].pc = "done" /\ thr[t].op = "get"
              /\ HasMalformedRow(file[thr[t].user]))
          => thr[t].status = "ok"
    /\ \A t \in Threads :
          (IsLogDone(t) /\ HasMalformedRow(thr[t].old))
          => /\ thr[t].df # <<>>
             /\ thr[t].status = "ok"
                   => MalformedRows(file[thr[t].user].rows)
                          = MalformedRows(thr[t].old.rows)
    /\ (cmp.status # "none" /\ HasMalformedRow(file[cmp.user]))
          => cmp.status = "ok"

\* C23: an upsert leaves every stored record of another date as it was:
\* the persisted collection holds the same records of other dates as the
\* loaded one, each as often and with the same values in all its fields
\* (the night as its first 10 characters); only their order may differ.
C23_UpsertFrame ==
    \A t \in Threads :
        LogOk(t) =>
            OtherRows(t, file[thr[t].user].rows) = OtherRows(t, thr[t].old.rows)

C23_Witness ==
    /\ LogOk(1)
    /\ thr[1].action = "updated"
    /\ Len(thr[1].old.rows) = 3
    /\ Cardinality(OldMatches(1)) = 1
    /\ \E i \in 1..3 : thr[1].old.rows[i].night = BadNight
    /\ file[thr[1].user].rows # TruncateNights(thr[1].old.rows)

\* C24: a step changes the persisted file of a user only when it is a step
\* of that user's own upsert writing its file: an upsert for one user,
\* completing or failing, leaves every other user's file unchanged, and the
\* read and compare operations change no file.
C24_UserIsolation ==
    [][\A u \in DOMAIN file :
          file'[u] # file[u]
          => \E t \in Threads :
                /\ thr[t].op = "log"
                /\ thr[t].user = u
                /\ thr[t].pc \in {"merged", "opened"}
                /\ thr'[t].pc \in {"opened", "done"}]_vars

C24_Witness ==
    /\ IsLogDone(1)
    /\ thr[1].user = "noor"
    /\ thr[1].status = "error"
    /\ thr[1].old = Csv(<<new_row(Night(1, FALSE), ProfileB)>>)
    /\ file["noor"] = ZeroBytes
    /\ file["eileen"] = Csv(<<new_row(Night(1, FALSE), ProfileB)>>)

\* C25: the reference record the comparison selects is never the latest
\* record: its date is 4 to 10 days before the latest date, so a collection
\* of one record has no reference.
C25_ReferenceWindow ==
    cmp.status = "ok" =>
        /\ cmp.comparison_available
              => /\ cmp.week_ago_date < cmp.latest_date
                 /\ cmp.latest_date - cmp.week_ago_date >= WeekDays - Tolerance
                 /\ cmp.latest_date - cmp.week_ago_date <= WeekDays + Tolerance
                 /\ \E i \in 1..Len(file[cmp.user].rows) :
                       file[cmp.user].rows[i].night.date = cmp.week_ago_date
        /\ Len(file[cmp.user].rows) = 1 => ~cmp.comparison_available

C25_Witness ==
    /\ cmp.status = "ok"
    /\ cmp.comparison_available
    /\ cmp.latest_date - cmp.week_ago_date = WeekDays + Tolerance
    /\ \E i \in 1..Len(file[cmp.user].rows) :
          file[cmp.user].rows[i].night.date = cmp.week_ago_date - 1

=============================================================================
